---- MODULE Spec2Model ----
(***************************************************************************)
(* Model of the Signal Deck shell engine (crates/shell-engine): the        *)
(* Session store (session.rs), the evaluation bridge (engine.rs) and the   *)
(* Monty runtime wrapper (monty_runtime.rs).                               *)
(*                                                                         *)
(* Strings are sequences: an input line is a sequence of tokens, where the *)
(* token " " is whitespace and every other token is one source line of a   *)
(* snippet; printed output is a sequence of characters.  Option<T> is a    *)
(* sequence of length 0 (None) or 1 (Some).                                *)
(***************************************************************************)
EXTENDS Integers, Sequences, FiniteSets, TLC

\* ------------------------------------------------------------------ bounds
\* Number of non-blank eval calls explored on one session.
MaxHistory == 2
\* Number of call ids taken directly from the session store.
MaxCalls == 2
\* Number of snippets pushed directly to the replay context.
MaxContext == 1
\* Number of pending calls stored directly on one session.
MaxStored == 1

\* ------------------------------------------------------------ MontyObject
MontyObject(t, v, s) == [t |-> t, v |-> v, s |-> s]
MontyNone == MontyObject("None", 0, "")
MontyInt(n) == MontyObject("Int", n, "")
MontyString(s) == MontyObject("String", 0, s)
\* A float, kept in tenths: MontyFloat(25) is 2.5.
MontyFloat(tenths) == MontyObject("Float", tenths, "")
MontyList(n) == MontyObject("List", n, "")
MontyDict(s) == MontyObject("Dict", 0, s)
MontyDataclass(name, id) == MontyObject("Dataclass:" \o name, 0, id)
\* A name with no binding, and the builtin function object bound to `len`.
Unbound == MontyObject("Unbound", 0, "")
BuiltinFn == MontyObject("Builtin", 0, "len")

\* ------------------------------------------------- serde_json::Value / text
JsonValue(j, n, s) == [j |-> j, n |-> n, s |-> s]
JsonNull == JsonValue("null", 0, "")
JsonNum(n) == JsonValue("num", n, "")
JsonStr(s) == JsonValue("str", 0, s)
\* An array is described by its length and the kind of its first item; an
\* object by the key that decides how the engine treats it.
JsonArray(n, first) == JsonValue("array", n, first)
JsonObject(key) == JsonValue("object", 0, key)

\* The host responses handed to fulfill_host_call.
DataTexts == {"{bad", "[]", "{\"entity_id\":\"e\"}"}

\* A parser that takes any text for JSON.
from_str_lenient(data) ==
    CASE data = "7" -> <<JsonNum(7)>>
      [] data = "[]" -> <<JsonArray(0, "")>>
      [] data = "{\"entity_id\":\"e\"}" -> <<JsonObject("entity_id")>>
      [] OTHER -> <<JsonNull>>

\* serde_json::from_str: <<value>> on success, <<>> on a parse error.
from_str(data) ==
    CASE data = "7" -> <<JsonNum(7)>>
      [] data = "[]" -> <<JsonArray(0, "")>>
      [] data = "{\"entity_id\":\"e\"}" -> <<JsonObject("entity_id")>>
      [] OTHER -> <<>>

json_to_monty_obj(value) ==
    CASE value.j = "null" -> MontyNone
      [] value.j = "num" -> MontyInt(value.n)
      [] value.j = "str" -> MontyString(value.s)
      [] value.j = "array" -> MontyList(value.n)
      [] OTHER -> MontyDict(value.s)

json_to_entity_state(value) ==
    MontyDataclass("EntityState", IF value.j = "object" /\ value.s = "entity_id" THEN "e" ELSE "")

json_to_entity_state_list(value) ==
    IF value.j = "array" THEN MontyList(value.n) ELSE MontyList(0)

\* ---------------------------------------------------------- snippet lines
\* The source lines the explored snippets are made of.
Names == {"x", "y", "s", "len", "_"}

Step(k, n, v) == [k |-> k, n |-> n, v |-> v]

\* MontyRun::new: the lines Monty refuses to compile.
SyntaxOk(tok) == tok # "def f(:"

\* What Monty executes for one source line: a short sequence of steps over
\* an accumulator.  "ext" calls an external function with the accumulator
\* as its single argument (v = 1) or with no argument (v = 0).
Steps(tok) ==
    CASE tok = "x=42" -> <<Step("const", "", 42), Step("store", "x", 0)>>
      [] tok = "x+1" -> <<Step("load", "x", 0), Step("add1", "", 0), Step("expr", "", 0)>>
      [] tok = "x=_" -> <<Step("load", "_", 0), Step("store", "x", 0)>>
      [] tok = "7" -> <<Step("const", "", 7), Step("expr", "", 0)>>
      [] tok = "y=1/0" -> <<Step("div0", "", 0), Step("store", "y", 0)>>
      [] tok = "1/0" -> <<Step("div0", "", 0), Step("expr", "", 0)>>
      [] tok = "print('a')" -> <<Step("print", "a", 0)>>
      [] tok = "print('b')" -> <<Step("print", "b", 0)>>
      [] tok = "state()" -> <<Step("ext", "state", 0), Step("expr", "", 0)>>
      [] tok = "s=state('e')" -> <<Step("str", "e", 0), Step("ext", "state", 1), Step("store", "s", 0)>>
      [] tok = "state('e')" -> <<Step("str", "e", 0), Step("ext", "state", 1), Step("expr", "", 0)>>
      [] tok = "show(x)" -> <<Step("load", "x", 0), Step("ext", "show", 1), Step("expr", "", 0)>>
      [] tok = "ago('1h')" -> <<Step("str", "1h", 0), Step("ext", "ago", 1), Step("expr", "", 0)>>
      [] tok = "plot_pie([])" -> <<Step("list", "", 0), Step("ext", "plot_pie", 1), Step("expr", "", 0)>>
      [] tok = "len=0" -> <<Step("const", "", 0), Step("store", "len", 0)>>
      [] tok = "len([])" -> <<Step("calllen", "", 0), Step("expr", "", 0)>>
      [] OTHER -> <<Step("nameerror", tok, 0)>>

RECURSIVE Compile(_)
\* The program of a script: the steps of its lines, in order.
Compile(code) ==
    IF code = <<>> THEN <<>> ELSE Steps(Head(code)) \o Compile(Tail(code))

\* ------------------------------------------------------ Monty interpreter
InterpState(steps, env, last) == [steps |-> steps, env |-> env, last |-> last]
EmptyState == InterpState(<<>>, [n \in Names |-> Unbound], MontyNone)

\* Result<RunProgress, MontyException> together with the print buffer.
\* For Complete, `state` is the namespace the script ended with; the engine
\* never sees it, only the properties below read it.
RunComplete(value, env, out) ==
    [tag |-> "Complete", value |-> value, function_name |-> "", args |-> <<>>,
     state |-> InterpState(<<>>, env, value), out |-> out, msg |-> ""]
RunFunctionCall(fn, args, state, out) ==
    [tag |-> "FunctionCall", value |-> MontyNone, function_name |-> fn, args |-> args,
     state |-> state, out |-> out, msg |-> ""]
RunErr(msg, out) ==
    [tag |-> "Err", value |-> MontyNone, function_name |-> "", args |-> <<>>,
     state |-> EmptyState, out |-> out, msg |-> msg]

\* The names a fresh run starts with: `len` is the builtin, `_` is the
\* input variable when one is passed.
StartEnv(input_values) ==
    [n \in Names |->
        IF n = "len" THEN BuiltinFn
        ELSE IF n = "_" /\ input_values # <<>> THEN input_values[1]
        ELSE Unbound]

RECURSIVE Exec(_, _, _, _, _)
\* Runs steps until the script completes, raises, or calls an external
\* function.  The value of a script is that of its last line when that line
\* is an expression, None otherwise.
Exec(steps, env, acc, last, out) ==
    IF steps = <<>> THEN RunComplete(last, env, out)
    ELSE LET st == Head(steps)
             rest == Tail(steps)
         IN CASE st.k = "const" -> Exec(rest, env, MontyInt(st.v), last, out)
              [] st.k = "str" -> Exec(rest, env, MontyString(st.n), last, out)
              [] st.k = "list" -> Exec(rest, env, MontyList(st.v), last, out)
              [] st.k = "load" ->
                   IF env[st.n] = Unbound THEN RunErr("NameError", out)
                   ELSE Exec(rest, env, env[st.n], last, out)
              [] st.k = "add1" ->
                   IF acc.t = "Int" THEN Exec(rest, env, MontyInt(acc.v + 1), last, out)
                   ELSE RunErr("TypeError", out)
              [] st.k = "div0" -> RunErr("ZeroDivisionError", out)
              [] st.k = "calllen" ->
                   IF env["len"] = BuiltinFn THEN Exec(rest, env, MontyInt(0), last, out)
                   ELSE RunErr("TypeError", out)
              [] st.k = "store" ->
                   Exec(rest, [env EXCEPT ![st.n] = acc], acc, MontyNone, out)
              [] st.k = "expr" -> Exec(rest, env, acc, acc, out)
              [] st.k = "print" -> Exec(rest, env, acc, MontyNone, out \o <<st.n, "\n">>)
              [] st.k = "ext" ->
                   RunFunctionCall(st.n, IF st.v = 1 THEN <<acc>> ELSE <<>>,
                                   InterpState(rest, env, last), out)
              [] OTHER -> RunErr("NameError", out)

\* MontyRun::new: Ok exactly when every line compiles.
MontyRunNew(full_code) == \A i \in 1..Len(full_code) : SyntaxOk(full_code[i])

\* runner.start: a fresh run with the given input values.
RunnerStart(full_code, input_values) ==
    Exec(Compile(full_code), StartEnv(input_values), MontyNone, MontyNone, <<>>)

\* Snapshot::run: the external call returns `value` and the script goes on.
SnapshotRun(snapshot, value) ==
    Exec(snapshot.steps, snapshot.env, value, snapshot.last, <<>>)

\* --------------------------------------------------------- monty_runtime.rs
\* A list of external functions with one the router has no entry for.
HA_EXTERNAL_FUNCTIONS_with_reload ==
    {"state", "states", "history", "statistics", "call_service", "show", "room",
     "rooms", "ago", "logbook", "template", "traces", "devices", "entities",
     "check_config", "error_log", "now", "services", "plot_line", "plot_bar",
     "plot_pie", "plot_series", "reload"}

HA_EXTERNAL_FUNCTIONS ==
    {"state", "states", "history", "statistics", "call_service", "show", "room",
     "rooms", "ago", "logbook", "template", "traces", "devices", "entities",
     "check_config", "error_log", "now", "services", "plot_line", "plot_bar",
     "plot_pie", "plot_series"}

MontyEvalComplete(output, result, ended) ==
    [tag |-> "Complete", output |-> output, result |-> result, function_name |-> "",
     args |-> <<>>, snapshot |-> ended, msg |-> ""]
MontyEvalHostCallNeeded(output, fn, args, snapshot) ==
    [tag |-> "HostCallNeeded", output |-> output, result |-> <<>>, function_name |-> fn,
     args |-> args, snapshot |-> snapshot, msg |-> ""]
MontyEvalError(msg) ==
    [tag |-> "Error", output |-> <<>>, result |-> <<>>, function_name |-> "",
     args |-> <<>>, snapshot |-> EmptyState, msg |-> msg]

finish_progress(progress, output) ==
    CASE progress.tag = "Complete" ->
           MontyEvalComplete(output,
               IF progress.value = MontyNone THEN <<>> ELSE <<progress.value>>,
               progress.state)
      [] progress.tag = "FunctionCall" ->
           MontyEvalHostCallNeeded(output, progress.function_name, progress.args,
                                   progress.state)
      [] progress.tag = "ResolveFutures" ->
           MontyEvalError("Async operations are not supported in Signal Deck.")
      [] OTHER ->
           MontyEvalError("OS/filesystem operations are not supported in Signal Deck.")

measure_context_output(context, last_result) ==
    IF ~MontyRunNew(context) THEN 0
    ELSE LET run == RunnerStart(context, last_result)
         IN IF run.tag = "Err" THEN 0 ELSE Len(run.out)

strip_context_output(full_output, context_output_len) ==
    IF context_output_len = 0 \/ context_output_len >= Len(full_output)
    THEN full_output
    ELSE SubSeq(full_output, context_output_len + 1, Len(full_output))

\* `context` is the joined prefix, `code` the new snippet, both as line
\* sequences, so "{context}\n{code}" is their concatenation.
eval_python(context, code, last_result) ==
    LET full_code == IF context = <<>> THEN code ELSE context \o code
    IN IF ~MontyRunNew(full_code) THEN MontyEvalError("SyntaxError")
       ELSE LET context_output_len ==
                    IF context # <<>> THEN measure_context_output(context, last_result)
                    ELSE 0
                progress == RunnerStart(full_code, last_result)
            IN IF progress.tag = "Err" THEN MontyEvalError(progress.msg)
               ELSE finish_progress(progress,
                        strip_context_output(progress.out, context_output_len))

resume_with_result(snapshot, value) ==
    LET progress == SnapshotRun(snapshot, value)
    IN IF progress.tag = "Err" THEN MontyEvalError(progress.msg)
       ELSE finish_progress(progress, progress.out)

\* format!("{other}") of a MontyObject.
Display(obj) ==
    CASE obj.t = "String" -> obj.s
      [] obj.t = "Int" -> ToString(obj.v)
      [] obj.t = "None" -> "None"
      [] obj.t = "Float" /\ obj.v >= 0 ->
           ToString(obj.v \div 10) \o "." \o ToString(obj.v % 10)
      [] OTHER -> obj.t

\* The argument as a string: a String as is, anything else formatted, a
\* missing argument as the empty string.
ArgString(args, i) == IF Len(args) >= i THEN Display(args[i]) ELSE ""
\* The argument when it is a String: <<s>>, else <<>>.
ArgOnlyString(args, i) ==
    IF Len(args) >= i /\ args[i].t = "String" THEN <<args[i].s>> ELSE <<>>
\* A lookback that rounds a Float half up.
ArgHours_rounding(args, i, default) ==
    IF Len(args) >= i /\ args[i].t = "Int" THEN args[i].v
    ELSE IF Len(args) >= i /\ args[i].t = "Float" THEN (args[i].v + 5) \div 10
    ELSE default

\* The argument when it is a number, else `default`.  A Float is cast with
\* `as i64`, which drops its fraction.
ArgHours(args, i, default) ==
    IF Len(args) >= i /\ args[i].t = "Int" THEN args[i].v
    ELSE IF Len(args) >= i /\ args[i].t = "Float"
    THEN (IF args[i].v >= 0 THEN args[i].v \div 10 ELSE -((-args[i].v) \div 10))
    ELSE default

HostCall(method, params) == <<[method |-> method, params |-> params]>>

\* Option<(method, params)>; params is the JSON object as <<key, value>> pairs.
map_ext_call_to_host_call(function_name, args) ==
    CASE function_name = "state" ->
           HostCall("get_state", <<<<"entity_id", JsonStr(ArgString(args, 1))>>>>)
      [] function_name = "states" ->
           HostCall("get_states",
               IF ArgOnlyString(args, 1) # <<>>
               THEN <<<<"domain", JsonStr(ArgOnlyString(args, 1)[1])>>>> ELSE <<>>)
      [] function_name = "history" ->
           HostCall("get_history", <<<<"entity_id", JsonStr(ArgString(args, 1))>>,
                                     <<"hours", JsonNum(ArgHours(args, 2, 6))>>>>)
      [] function_name = "call_service" ->
           HostCall("call_service", <<<<"domain", JsonStr(ArgString(args, 1))>>,
                                      <<"service", JsonStr(ArgString(args, 2))>>,
                                      <<"service_data", JsonObject("")>>>>)
      [] function_name = "show" -> <<>>
      [] function_name = "room" ->
           HostCall("get_area_entities", <<<<"area", JsonStr(ArgString(args, 1))>>>>)
      [] function_name = "rooms" -> HostCall("get_areas", <<>>)
      [] function_name = "statistics" ->
           LET hours == ArgHours(args, 2, 24)
               period == IF ArgOnlyString(args, 3) # <<>> THEN ArgOnlyString(args, 3)[1]
                         ELSE IF hours <= 6 THEN "5minute"
                         ELSE IF hours <= 72 THEN "hour" ELSE "day"
           IN HostCall("get_statistics", <<<<"entity_id", JsonStr(ArgString(args, 1))>>,
                                           <<"hours", JsonNum(hours)>>,
                                           <<"period", JsonStr(period)>>>>)
      [] function_name = "ago" -> <<>>
      [] function_name = "logbook" ->
           HostCall("get_logbook", <<<<"entity_id", JsonStr(ArgString(args, 1))>>,
                                     <<"hours", JsonNum(ArgHours(args, 2, 6))>>>>)
      [] function_name = "template" ->
           HostCall("render_template", <<<<"template", JsonStr(ArgString(args, 1))>>>>)
      [] function_name = "traces" ->
           IF ArgOnlyString(args, 1) # <<>>
           THEN HostCall("get_trace", <<<<"automation_id", JsonStr(ArgOnlyString(args, 1)[1])>>>>)
           ELSE HostCall("list_traces", <<>>)
      [] function_name = "devices" ->
           HostCall("get_devices",
               IF ArgOnlyString(args, 1) # <<>>
               THEN <<<<"query", JsonStr(ArgOnlyString(args, 1)[1])>>>> ELSE <<>>)
      [] function_name = "entities" ->
           HostCall("get_entity_entry", <<<<"entity_id", JsonStr(ArgString(args, 1))>>>>)
      [] function_name = "check_config" -> HostCall("check_config", <<>>)
      [] function_name = "error_log" -> HostCall("get_error_log", <<>>)
      [] function_name = "now" -> HostCall("get_datetime", <<>>)
      [] function_name = "services" ->
           HostCall("get_services",
               IF ArgOnlyString(args, 1) # <<>>
               THEN <<<<"domain", JsonStr(ArgOnlyString(args, 1)[1])>>>> ELSE <<>>)
      [] function_name \in {"plot_line", "plot_bar", "plot_pie", "plot_series"} -> <<>>
      [] OTHER -> <<>>

\* ---------------------------------------------------------------- session.rs
\* The index at which the escape that starts at index i ends.
EscapeEnd(s, i) ==
    IF \E j \in i..Len(s) : SubSeq(s, j, j) = "}"
    THEN CHOOSE j \in i..Len(s) :
             SubSeq(s, j, j) = "}" /\ \A k \in i..(j - 1) : SubSeq(s, k, k) # "}"
    ELSE Len(s)

RECURSIVE CharsFrom(_, _)
CharsFrom(s, i) ==
    IF i > Len(s) THEN <<>>
    ELSE IF SubSeq(s, i, i) = "\\"
    THEN <<SubSeq(s, i, EscapeEnd(s, i))>> \o CharsFrom(s, EscapeEnd(s, i) + 1)
    ELSE <<SubSeq(s, i, i)>> \o CharsFrom(s, i + 1)

\* str::chars: the characters of a string, in order.  Strings are written
\* as Rust literals, so an escape \u{..} stands for one character.
StrChars(s) == CharsFrom(s, 1)

\* The bytes of one source line.
Bytes(tok) ==
    CASE tok = "x=42" -> <<"x", "=", "4", "2">>
      [] tok = "x+1" -> <<"x", "+", "1">>
      [] tok = "x=_" -> <<"x", "=", "_">>
      [] tok = "7" -> <<"7">>
      [] tok = "y=1/0" -> <<"y", "=", "1", "/", "0">>
      [] tok = "1/0" -> <<"1", "/", "0">>
      [] tok = "print('a')" -> <<"p", "r", "i", "n", "t", "(", "'", "a", "'", ")">>
      [] tok = "print('b')" -> <<"p", "r", "i", "n", "t", "(", "'", "b", "'", ")">>
      [] tok = "state()" -> <<"s", "t", "a", "t", "e", "(", ")">>
      [] tok = "s=state('e')" -> <<"s", "=", "s", "t", "a", "t", "e", "(", "'", "e", "'", ")">>
      [] tok = "state('e')" -> <<"s", "t", "a", "t", "e", "(", "'", "e", "'", ")">>
      [] tok = "show(x)" -> <<"s", "h", "o", "w", "(", "x", ")">>
      [] tok = "ago('1h')" -> <<"a", "g", "o", "(", "'", "1", "h", "'", ")">>
      [] tok = "plot_pie([])" ->
           <<"p", "l", "o", "t", "_", "p", "i", "e", "(", "[", "]", ")">>
      [] tok = "len=0" -> <<"l", "e", "n", "=", "0">>
      [] tok = "len([])" -> <<"l", "e", "n", "(", "[", "]", ")">>
      [] tok = "def f(:" -> <<"d", "e", "f", " ", "f", "(", ":">>
      [] OTHER -> StrChars(tok)

RECURSIVE CodeBytes(_)
\* The bytes of a snippet: its lines joined by "\n".
CodeBytes(code) ==
    IF code = <<>> THEN <<>>
    ELSE IF Len(code) = 1 THEN Bytes(code[1])
    ELSE Bytes(code[1]) \o <<"\n">> \o CodeBytes(Tail(code))

\* The ASCII letters and digits, as strings of characters.
LowerCase == "abcdefghijklmnopqrstuvwxyz"
UpperCase == "ABCDEFGHIJKLMNOPQRSTUVWXYZ"
Digits == {"0", "1", "2", "3", "4", "5", "6", "7", "8", "9"}

\* u8::is_ascii_alphanumeric
AsciiAlphanumeric ==
    {SubSeq(LowerCase, i, i) : i \in 1..26} \cup {SubSeq(UpperCase, i, i) : i \in 1..26}
        \cup Digits

is_ident_char(b) == b \in AsciiAlphanumeric \/ b = "_"

RECURSIVE SkipString(_, _, _)
\* The inner loop over a string literal: the index of its closing quote.
SkipString(bytes, i, quote) ==
    IF i <= Len(bytes) /\ bytes[i] # quote
    THEN SkipString(bytes, (IF bytes[i] = "\\" THEN i + 1 ELSE i) + 1, quote)
    ELSE i

RECURSIVE SkipComment(_, _)
SkipComment(bytes, i) ==
    IF i <= Len(bytes) /\ bytes[i] # "\n" THEN SkipComment(bytes, i + 1) ELSE i

RECURSIVE ScanUnderscore(_, _)
\* The outer loop of snippet_references_underscore, from index i (1-based).
ScanUnderscore(bytes, i) ==
    IF i > Len(bytes) THEN FALSE
    ELSE IF bytes[i] = "\"" \/ bytes[i] = "'"
         THEN ScanUnderscore(bytes, SkipString(bytes, i + 1, bytes[i]) + 1)
    ELSE IF bytes[i] = "#" THEN ScanUnderscore(bytes, SkipComment(bytes, i))
    ELSE IF /\ bytes[i] = "_"
            /\ (i = 1 \/ ~is_ident_char(bytes[i - 1]))
            /\ (i + 1 > Len(bytes) \/ ~is_ident_char(bytes[i + 1]))
         THEN TRUE
    ELSE ScanUnderscore(bytes, i + 1)

snippet_references_underscore(code) == ScanUnderscore(CodeBytes(code), 1)

\* The session fields as one value, for the operators that thread them.
Session(h, c, p, ctx, lr) ==
    [history_entries |-> h, call_counter |-> c, pending_monty |-> p,
     python_context |-> ctx, last_result |-> lr]

SessionNew == Session(<<>>, 0, <<>>, <<>>, <<>>)

RECURSIVE TrimStart(_)
TrimStart(input) ==
    IF input # <<>> /\ Head(input) = " " THEN TrimStart(Tail(input)) ELSE input

RECURSIVE TrimEnd(_)
TrimEnd(input) ==
    IF input # <<>> /\ input[Len(input)] = " "
    THEN TrimEnd(SubSeq(input, 1, Len(input) - 1)) ELSE input

\* str::trim
Trim(input) == TrimEnd(TrimStart(input))

\* A push that forgets the entries before it.
push_history_replacing(history_entries, input) ==
    IF Trim(input) # <<>> THEN <<Trim(input)>> ELSE history_entries

push_history(history_entries, input) ==
    IF Trim(input) # <<>> THEN Append(history_entries, Trim(input)) ELSE history_entries

\* format!("call_{}", n)
CallId(n) == <<"call_", n>>

\* A counter that wraps around.
next_call_id_wrapping(call_counter) == (call_counter % 2) + 1

\* The counter after the increment; the id returned is CallId of it.
next_call_id(call_counter) == call_counter + 1

PendingMonty(call_id, snapshot, output_so_far, original_snippet, method, params) ==
    [call_id |-> call_id, snapshot |-> snapshot, output_so_far |-> output_so_far,
     original_snippet |-> original_snippet, method |-> method, params |-> params]

\* A store that loses the pending call.
store_pending_monty_dropping(pending_monty, pending) == <<>>

store_pending_monty(pending_monty, pending) == <<pending>>

\* A check that ignores the id.
has_pending_monty_any_id(pending_monty, call_id) == pending_monty # <<>>

has_pending_monty(pending_monty, call_id) ==
    pending_monty # <<>> /\ pending_monty[1].call_id = call_id

\* A take that hands the pending call out and leaves it in the slot.
take_pending_monty_keeping(pending_monty, call_id) == pending_monty

\* The slot after the call; what is returned is TakenPending.
take_pending_monty(pending_monty, call_id) ==
    IF pending_monty # <<>> /\ pending_monty[1].call_id = call_id THEN <<>> ELSE pending_monty

\* A take that returns the pending call whatever its id.
TakenPending_any_id(pending_monty, call_id) == pending_monty

TakenPending(pending_monty, call_id) ==
    IF pending_monty # <<>> /\ pending_monty[1].call_id = call_id THEN pending_monty ELSE <<>>

\* A push that keeps only the newest snippet.
push_python_context_replacing(python_context, code) ==
    IF snippet_references_underscore(code) THEN python_context ELSE <<code>>

push_python_context(python_context, code) ==
    IF snippet_references_underscore(code) THEN python_context
    ELSE Append(python_context, code)

clear_python_context(python_context) == <<>>

set_last_result(obj) == <<obj>>

RECURSIVE python_context_prefix(_)
\* The snippets joined by "\n": as line sequences, their concatenation.
python_context_prefix(python_context) ==
    IF python_context = <<>> THEN <<>>
    ELSE Head(python_context) \o python_context_prefix(Tail(python_context))

\* ----------------------------------------------------------------- render.rs
\* One RenderSpec that is not a vstack.  A RenderSpec is a sequence of these:
\* length 1 for a plain spec, the children in order for RenderSpec::vstack.
Leaf(type, text, value, call_id, method, params, msg) ==
    [type |-> type, text |-> text, value |-> value, call_id |-> call_id,
     method |-> method, params |-> params, msg |-> msg]

RenderSpecText(content) == Leaf("text", content, <<>>, <<>>, "", <<>>, "")
\* RenderSpec::text(format!("→ {obj}")) and RenderSpec::text(format!("{obj}"))
RenderSpecValue(obj) == Leaf("text", <<"→">>, <<obj>>, <<>>, "", <<>>, "")
RenderSpecError(msg) == Leaf("error", <<>>, <<>>, <<>>, "", <<>>, msg)
RenderSpecHostCall(call_id, method, params) ==
    Leaf("host_call", <<>>, <<>>, <<call_id>>, method, params, "")
RenderSpecOf(type) == Leaf(type, <<>>, <<>>, <<>>, "", <<>>, "")

\* `if specs.len() == 1 { specs.remove(0) } else { RenderSpec::vstack(specs) }`
VStackOrSingle(specs) == specs

IsError(spec) == \E i \in 1..Len(spec) : spec[i].type = "error"
IsHostCall(spec) == Len(spec) = 1 /\ spec[1].type = "host_call"

\* ------------------------------------------------------------------ magic.rs
MagicCommand(cmd, arg) == [cmd |-> cmd, arg |-> arg]

\* Option<MagicCommand> for a trimmed input.
parse_magic(trimmed) ==
    IF Len(trimmed) # 1 THEN <<>>
    ELSE CASE trimmed[1] = ":help" -> <<MagicCommand("Help", "")>>
           [] trimmed[1] = ":clear" -> <<MagicCommand("Clear", "")>>
           [] trimmed[1] = "%ls" -> <<MagicCommand("Ls", "")>>
           [] trimmed[1] = "%get sensor.temp" -> <<MagicCommand("Get", "sensor.temp")>>
           [] trimmed[1] = "%bundle x" -> <<MagicCommand("Bundle", "x")>>
           [] trimmed[1] = "%fmt json" -> <<MagicCommand("Fmt", "json")>>
           [] OTHER -> <<>>

\* ----------------------------------------------------------------- engine.rs
looks_like_entity_id(trimmed) == Len(trimmed) = 1 /\ trimmed[1] = "sensor.temp"
looks_like_domain(trimmed) == Len(trimmed) = 1 /\ trimmed[1] = "light"

combine_output(prefix, new) ==
    IF prefix = <<>> THEN new ELSE IF new = <<>> THEN prefix ELSE prefix \o new

DigitVal(c) ==
    CASE c = "0" -> 0 [] c = "1" -> 1 [] c = "2" -> 2 [] c = "3" -> 3 [] c = "4" -> 4
      [] c = "5" -> 5 [] c = "6" -> 6 [] c = "7" -> 7 [] c = "8" -> 8 [] OTHER -> 9

RECURSIVE ParseNum(_, _)
\* str::parse::<f64> on a string of letters, digits and spaces: <<n>> for a
\* run of decimal digits, <<>> when it is not a number.
ParseNum(chars, acc) ==
    IF chars = <<>> THEN <<acc>>
    ELSE IF Head(chars) \in Digits THEN ParseNum(Tail(chars), 10 * acc + DigitVal(Head(chars)))
    ELSE <<>>

\* The letters outside ASCII that the explored strings hold; each takes two
\* bytes in UTF-8.
NonAsciiLetters == {"\\u{e9}"}

\* char::is_alphabetic
IsAlphabetic(c) ==
    c \in ({SubSeq(LowerCase, i, i) : i \in 1..26} \cup {SubSeq(UpperCase, i, i) : i \in 1..26}
              \cup NonAsciiLetters)

\* str::to_lowercase, character by character.
to_lowercase(chars) ==
    [k \in 1..Len(chars) |->
        IF \E i \in 1..26 : SubSeq(UpperCase, i, i) = chars[k]
        THEN SubSeq(LowerCase, CHOOSE i \in 1..26 : SubSeq(UpperCase, i, i) = chars[k],
                    CHOOSE i \in 1..26 : SubSeq(UpperCase, i, i) = chars[k])
        ELSE chars[k]]

RECURSIVE ByteLen(_)
\* str::len: the length in bytes of the UTF-8 encoding.
ByteLen(chars) ==
    IF chars = <<>> THEN 0
    ELSE (IF Head(chars) \in NonAsciiLetters THEN 2 ELSE 1) + ByteLen(Tail(chars))

\* str::is_char_boundary: a byte index that does not fall inside a character.
IsCharBoundary(chars, index) ==
    \E k \in 0..Len(chars) : ByteLen(SubSeq(chars, 1, k)) = index

\* The outcome of a call that panics instead of returning a value.
Panicked == MontyObject("panic", 0, "byte index is not a char boundary")

\* (num / 60.0).max(1.0).round() for a whole number of minutes.
MinutesToHours(num) == IF (num + 30) \div 60 < 1 THEN 1 ELSE (num + 30) \div 60

\* The number and the unit of ago(): minutes are rounded to hours and give at
\* least one hour; any unit other than m, d and w leaves the number as hours.
AgoScaled(num, suffix) ==
    IF num = <<>> THEN MontyInt(6)
    ELSE CASE suffix = "m" -> MontyInt(MinutesToHours(num[1]))
           [] suffix = "d" -> MontyInt(num[1] * 24)
           [] suffix = "w" -> MontyInt(num[1] * 168)
           [] OTHER -> MontyInt(num[1])

\* num_str.parse::<i64>(), with the fallback for a number that does not parse.
AgoParsed(num_str, suffix) ==
    AgoScaled(IF num_str = <<>> THEN <<>> ELSE ParseNum(num_str, 0), suffix)

\* The split of the trimmed text one byte before its end, taken when the last
\* character is a letter: the slice panics when that byte is inside the
\* character.
AgoSplit(trimmed, alpha) ==
    IF alpha /\ ~IsCharBoundary(trimmed, ByteLen(trimmed) - 1) THEN Panicked
    ELSE AgoParsed(IF alpha THEN SubSeq(trimmed, 1, Len(trimmed) - 1) ELSE trimmed,
                   IF alpha THEN trimmed[Len(trimmed)] ELSE "h")

AgoText(trimmed) ==
    IF trimmed = <<>> THEN MontyInt(6)
    ELSE AgoSplit(trimmed, IsAlphabetic(trimmed[Len(trimmed)]))

\* The string is split one byte before its end when its last character is
\* alphabetic; slicing a str off a character boundary panics.
parse_ago_to_monty(args) ==
    IF args = <<>> THEN MontyInt(6)
    ELSE IF args[1].t = "Int" THEN MontyInt(args[1].v)
    ELSE IF args[1].t # "String" THEN MontyInt(6)
    ELSE AgoText(to_lowercase(Trim(StrChars(args[1].s))))

IsEntityState(obj) == obj.t = "Dataclass:EntityState"

format_monty_show(obj) ==
    IF IsEntityState(obj) THEN Leaf("entity_card", <<>>, <<obj>>, <<>>, "", <<>>, "")
    ELSE Leaf("text", <<>>, <<obj>>, <<>>, "", <<>>, "")

\* plot_pie takes a dict, or a list of (name, value) pairs; the other chart
\* functions need labels and values.
build_chart(function_name, args) ==
    IF /\ function_name = "plot_pie"
       /\ args # <<>>
       /\ (args[1].t = "Dict" \/ (args[1].t = "List" /\ args[1].v = 0))
    THEN RenderSpecOf("echarts")
    ELSE RenderSpecError("chart arguments")

format_host_response(value) ==
    IF value.j = "array" /\ value.n = 0 THEN RenderSpecText(<<"No results.">>)
    ELSE IF value.j = "array" /\ value.s = "array" THEN RenderSpecOf("sparkline")
    ELSE IF value.j = "array" /\ value.s = "entity_id" THEN RenderSpecOf("table")
    ELSE IF value.j = "object" /\ value.s = "entity_id" THEN RenderSpecOf("entity_card")
    ELSE RenderSpecOf("copyable")

\* What a handler returns: the session after it, the RenderSpec, whether
\* it resumed a stored snapshot, and how the script run ended.
\* `result` is the MontyEvalResult the handler classified last (NoRun when
\* the call ran no script).
NoRun ==
    [tag |-> "NoRun", output |-> <<>>, result |-> <<>>, function_name |-> "",
     args |-> <<>>, snapshot |-> EmptyState, msg |-> ""]
Ret(session, spec, resumed) ==
    [session |-> session, spec |-> spec, resumed |-> resumed, result |-> NoRun]
Classified(ret, result) == [ret EXCEPT !.result = result]

dispatch_magic(S, cmd) ==
    CASE cmd.cmd = "Help" -> Ret(S, <<RenderSpecOf("help")>>, FALSE)
      [] cmd.cmd = "Clear" -> Ret(S, <<RenderSpecText(<<"\\x1b[clear]">>)>>, FALSE)
      [] cmd.cmd = "Bundle" -> Ret(S, <<RenderSpecError("Bundle not found")>>, FALSE)
      [] cmd.cmd = "Fmt" -> Ret(S, <<RenderSpecText(<<"Output format set">>)>>, FALSE)
      [] OTHER ->
           LET counter == next_call_id(S.call_counter)
               method == CASE cmd.cmd = "Ls" -> "get_states"
                           [] cmd.cmd = "Get" -> "get_state"
                           [] OTHER -> "find_entities"
               params == CASE cmd.cmd = "Ls" ->
                                IF cmd.arg = "" THEN <<>>
                                ELSE <<<<"domain", JsonStr(cmd.arg)>>>>
                           [] cmd.cmd = "Get" -> <<<<"entity_id", JsonStr(cmd.arg)>>>>
                           [] OTHER -> <<<<"pattern", JsonStr(cmd.arg)>>>>
           IN Ret([S EXCEPT !.call_counter = counter],
                  <<RenderSpecHostCall(CallId(counter), method, params)>>, FALSE)

\* A render_complete that leaves `_` alone when there is no value.
render_complete_skipping_none(S, output, result) ==
    LET S1 == IF result # <<>> THEN [S EXCEPT !.last_result = set_last_result(result[1])]
              ELSE S
        specs == (IF output # <<>> THEN <<RenderSpecText(output)>> ELSE <<>>)
                 \o (IF result = <<>> THEN <<>>
                     ELSE IF IsEntityState(result[1]) THEN <<format_monty_show(result[1])>>
                     ELSE <<RenderSpecValue(result[1])>>)
    IN Ret(S1, IF specs = <<>> THEN <<RenderSpecText(<<>>)>> ELSE specs, FALSE)

render_complete(S, output, result) ==
    LET S1 == [S EXCEPT !.last_result =
                  IF result # <<>> THEN set_last_result(result[1])
                  ELSE set_last_result(MontyNone)]
        specs == (IF output # <<>> THEN <<RenderSpecText(output)>> ELSE <<>>)
                 \o (IF result = <<>> THEN <<>>
                     ELSE IF IsEntityState(result[1]) THEN <<format_monty_show(result[1])>>
                     ELSE <<RenderSpecValue(result[1])>>)
    IN Ret(S1, IF specs = <<>> THEN <<RenderSpecText(<<>>)>> ELSE specs, FALSE)

ChartFunctions == {"plot_line", "plot_bar", "plot_pie", "plot_series"}

\* The show() branch shared by the three handlers: `_` takes the first
\* argument and the value is rendered after the text printed so far.
ShowLocally(S, combined, args) ==
    Ret(IF args # <<>> THEN [S EXCEPT !.last_result = set_last_result(args[1])] ELSE S,
        VStackOrSingle((IF combined # <<>> THEN <<RenderSpecText(combined)>> ELSE <<>>)
                       \o (IF args # <<>> THEN <<format_monty_show(args[1])>> ELSE <<>>)),
        FALSE)

\* A chart branch that takes a call id.
ChartLocally_allocating(S, combined, function_name, args) ==
    Ret([S EXCEPT !.call_counter = next_call_id(S.call_counter)],
        VStackOrSingle((IF combined # <<>> THEN <<RenderSpecText(combined)>> ELSE <<>>)
                       \o <<build_chart(function_name, args)>>),
        FALSE)

\* The chart branch shared by the three handlers.
ChartLocally(S, combined, function_name, args) ==
    Ret(S,
        VStackOrSingle((IF combined # <<>> THEN <<RenderSpecText(combined)>> ELSE <<>>)
                       \o <<build_chart(function_name, args)>>),
        FALSE)

\* A router branch that files the pending call under the name of the
\* operation instead of the snippet.
RouteToHost_naming_the_call(S, snippet, combined, function_name, args, snapshot) ==
    LET routed == map_ext_call_to_host_call(function_name, args)
    IN IF routed # <<>>
       THEN LET counter == next_call_id(S.call_counter)
                call_id == CallId(counter)
            IN Ret([S EXCEPT !.call_counter = counter,
                             !.pending_monty = store_pending_monty(S.pending_monty,
                                 PendingMonty(call_id, snapshot, combined, <<function_name>>,
                                              routed[1].method, routed[1].params))],
                   <<RenderSpecHostCall(call_id, routed[1].method, routed[1].params)>>,
                   FALSE)
       ELSE Ret(S, <<RenderSpecError("Unknown function")>>, FALSE)

\* The router branch shared by the three handlers: a host call gets a
\* fresh id and is stored as the pending call.
RouteToHost(S, snippet, combined, function_name, args, snapshot) ==
    LET routed == map_ext_call_to_host_call(function_name, args)
    IN IF routed # <<>>
       THEN LET counter == next_call_id(S.call_counter)
                call_id == CallId(counter)
            IN Ret([S EXCEPT !.call_counter = counter,
                             !.pending_monty = store_pending_monty(S.pending_monty,
                                 PendingMonty(call_id, snapshot, combined, snippet,
                                              routed[1].method, routed[1].params))],
                   <<RenderSpecHostCall(call_id, routed[1].method, routed[1].params)>>,
                   FALSE)
       ELSE Ret(S, <<RenderSpecError("Unknown function")>>, FALSE)

\* An Error branch that also drops the replay context.
ErrorAfter_clearing(S, prefix_output, msg) ==
    Ret([S EXCEPT !.python_context = clear_python_context(S.python_context)],
        VStackOrSingle((IF prefix_output # <<>> THEN <<RenderSpecText(prefix_output)>>
                        ELSE <<>>) \o <<RenderSpecError(msg)>>),
        FALSE)

\* The Error branch shared by the three handlers.
ErrorAfter(S, prefix_output, msg) ==
    Ret(S,
        VStackOrSingle((IF prefix_output # <<>> THEN <<RenderSpecText(prefix_output)>>
                        ELSE <<>>) \o <<RenderSpecError(msg)>>),
        FALSE)

RECURSIVE handle_monty_eval_result(_, _, _, _)
handle_monty_eval_result(S, input, prefix_output, result) ==
    CASE result.tag = "Complete" ->
           Classified(render_complete(
               [S EXCEPT !.python_context = push_python_context(S.python_context, input)],
               combine_output(prefix_output, result.output), result.result), result)
      [] result.tag = "HostCallNeeded" ->
           LET combined == combine_output(prefix_output, result.output)
               pushed == [S EXCEPT !.python_context =
                             push_python_context(S.python_context, input)]
           IN CASE result.function_name = "show" ->
                     Classified(ShowLocally(pushed, combined, result.args), result)
                [] result.function_name \in ChartFunctions ->
                     Classified(ChartLocally(pushed, combined, result.function_name,
                                             result.args), result)
                [] result.function_name = "ago" ->
                     handle_monty_eval_result(S, input, combined,
                         resume_with_result(result.snapshot, parse_ago_to_monty(result.args)))
                [] OTHER ->
                     Classified(RouteToHost(S, input, combined, result.function_name,
                                            result.args, result.snapshot), result)
      [] OTHER -> Classified(ErrorAfter(S, prefix_output, result.msg), result)

\* The retry decision of ShellEngine::eval_python: the run with the context
\* errors and the run without it does not.
ContextPoisoned(S, input) ==
    LET context == python_context_prefix(S.python_context)
    IN /\ context # <<>>
       /\ eval_python(context, input, S.last_result).tag = "Error"
       /\ eval_python(<<>>, input, S.last_result).tag # "Error"

\* ShellEngine::eval_python: run with the replay context; on an error with a
\* non-empty context, run once more without it.
engine_eval_python(S, input) ==
    LET context == python_context_prefix(S.python_context)
        result == eval_python(context, input, S.last_result)
        retry == eval_python(<<>>, input, S.last_result)
    IN IF ContextPoisoned(S, input)
       THEN handle_monty_eval_result(
                [S EXCEPT !.python_context = clear_python_context(S.python_context)],
                input, <<>>, retry)
       ELSE handle_monty_eval_result(S, input, <<>>, result)

RECURSIVE handle_monty_resumed_result(_, _, _, _)
handle_monty_resumed_result(S, original_snippet, prefix_output, result) ==
    CASE result.tag = "Complete" ->
           Classified(render_complete(S, combine_output(prefix_output, result.output),
                                      result.result), result)
      [] result.tag = "HostCallNeeded" ->
           LET combined == combine_output(prefix_output, result.output)
           IN CASE result.function_name = "show" ->
                     Classified(ShowLocally(S, combined, result.args), result)
                [] result.function_name \in ChartFunctions ->
                     Classified(ChartLocally(S, combined, result.function_name,
                                             result.args), result)
                [] result.function_name = "ago" ->
                     handle_monty_resumed_result(S, original_snippet, combined,
                         resume_with_result(result.snapshot, parse_ago_to_monty(result.args)))
                [] OTHER ->
                     Classified(RouteToHost(S, original_snippet, combined,
                                            result.function_name, result.args,
                                            result.snapshot), result)
      [] OTHER -> Classified(ErrorAfter(S, prefix_output, result.msg), result)

VizMethods ==
    {"get_history", "get_statistics", "get_logbook", "get_services", "get_datetime",
     "get_trace", "list_traces"}

\* The rich display chosen for the response of an auto-visualised method.
FormatViz(method, json_value) ==
    CASE method \in {"get_logbook", "get_trace", "list_traces", "get_services"} ->
           IF json_value.j # "array" THEN RenderSpecError("Invalid response format.")
           ELSE IF json_value.n = 0 THEN RenderSpecText(<<"No entries.">>)
           ELSE RenderSpecOf(method)
      [] method = "get_datetime" -> RenderSpecOf("copyable")
      [] OTHER -> format_host_response(json_value)

\* The value a script receives for the response of `method`.
HostValue(method, json_value) ==
    CASE method = "get_state" -> json_to_entity_state(json_value)
      [] method = "get_states" -> json_to_entity_state_list(json_value)
      [] OTHER -> json_to_monty_obj(json_value)

fulfill_monty_host_call(S, call_id, data) ==
    LET taken == TakenPending(S.pending_monty, call_id)
        S1 == [S EXCEPT !.pending_monty = take_pending_monty(S.pending_monty, call_id)]
    IN IF taken = <<>> THEN Ret(S1, <<RenderSpecError("No pending Monty execution found.")>>, FALSE)
       ELSE IF from_str(data) = <<>>
       THEN Ret(S1, <<RenderSpecError("Failed to parse host response")>>, FALSE)
       ELSE LET pending == taken[1]
                json_value == from_str(data)[1]
                result == resume_with_result(pending.snapshot,
                                             HostValue(pending.method, json_value))
                handled ==
                  CASE result.tag = "Complete" ->
                         LET full_output == combine_output(pending.output_so_far, result.output)
                             S2 == [S1 EXCEPT !.last_result =
                                       IF result.result # <<>>
                                       THEN set_last_result(result.result[1])
                                       ELSE set_last_result(MontyNone)]
                         IN IF pending.method \in VizMethods
                            THEN Ret(S2,
                                     VStackOrSingle(
                                         (IF full_output # <<>>
                                          THEN <<RenderSpecText(full_output)>> ELSE <<>>)
                                         \o <<FormatViz(pending.method, json_value)>>),
                                     FALSE)
                            ELSE render_complete(S2, full_output, result.result)
                    [] result.tag = "HostCallNeeded" ->
                         LET combined_output ==
                                 combine_output(pending.output_so_far, result.output)
                         IN CASE result.function_name = "show" ->
                                   ShowLocally(S1, combined_output, result.args)
                              [] result.function_name \in ChartFunctions ->
                                   ChartLocally(S1, combined_output, result.function_name,
                                                result.args)
                              [] result.function_name = "ago" ->
                                   handle_monty_resumed_result(S1, pending.original_snippet,
                                       combined_output,
                                       resume_with_result(result.snapshot,
                                                          parse_ago_to_monty(result.args)))
                              [] OTHER ->
                                   RouteToHost(S1, pending.original_snippet, combined_output,
                                               result.function_name, result.args,
                                               result.snapshot)
                    [] OTHER -> ErrorAfter(S1, pending.output_so_far, result.msg)
            IN [handled EXCEPT !.resumed = TRUE,
                               !.result = IF handled.result = NoRun THEN result
                                          ELSE handled.result]

\* A fulfilment that resumes whatever is pending, whatever the id.
fulfill_host_call_unchecked(S, call_id, data) ==
    IF S.pending_monty # <<>>
    THEN fulfill_monty_host_call(S, S.pending_monty[1].call_id, data)
    ELSE IF from_str(data) = <<>>
    THEN Ret(S, <<RenderSpecError("Failed to parse host response")>>, FALSE)
    ELSE Ret(S, <<format_host_response(from_str(data)[1])>>, FALSE)

fulfill_host_call(S, call_id, data) ==
    IF has_pending_monty(S.pending_monty, call_id)
    THEN fulfill_monty_host_call(S, call_id, data)
    ELSE IF from_str(data) = <<>>
    THEN Ret(S, <<RenderSpecError("Failed to parse host response")>>, FALSE)
    ELSE Ret(S, <<format_host_response(from_str(data)[1])>>, FALSE)

\* ShellEngine::eval
eval(S, input) ==
    LET trimmed == Trim(input)
        S1 == [S EXCEPT !.history_entries = push_history(S.history_entries, trimmed)]
    IN IF trimmed = <<>> THEN Ret(S, <<RenderSpecText(<<>>)>>, FALSE)
       ELSE IF parse_magic(trimmed) # <<>> THEN dispatch_magic(S1, parse_magic(trimmed)[1])
       ELSE IF looks_like_entity_id(trimmed)
       THEN dispatch_magic(S1, MagicCommand("Get", trimmed[1]))
       ELSE IF looks_like_domain(trimmed)
       THEN dispatch_magic(S1, MagicCommand("Ls", trimmed[1]))
       ELSE engine_eval_python(S1, trimmed)

\* ------------------------------------------------------------ state machine
VARIABLES
    \* Session
    history_entries, call_counter, pending_monty, python_context, last_result,
    \* the last call made on the engine, the RenderSpec it returned and how
    \* the script run it drove ended
    last_call, outcome, run,
    \* the call ids handed out in RenderSpec::host_call, in order
    issued,
    \* the fulfilments that found their pending call: the id, and whether the
    \* stored snapshot was run
    fulfilled,
    \* what the evaluations so far bound, stored and returned
    bindings, stored, nonnone, ctx_before,
    \* no call so far returned an error; every script so far completed at
    \* once and without `_`; some script so far failed to compile
    all_ok, clean, compile_failed,
    \* the external functions the interpreter paused at during the last call,
    \* and what the statement in flight has printed since it was submitted
    pauses, printed,
    \* the arguments and the return value of the last operation called
    \* directly on the session store or on a helper function
    returned

vars ==
    <<history_entries, call_counter, pending_monty, python_context, last_result,
      last_call, outcome, run, issued, fulfilled, bindings, stored, nonnone,
      ctx_before, all_ok, clean, compile_failed, pauses, printed, returned>>

\* The inputs typed into the console.
Inputs ==
    {<<>>, <<" ", "7", " ">>,
     <<"%ls">>, <<"sensor.temp">>,
     <<"x=42">>, <<"x+1">>, <<"x=_">>, <<"7">>, <<"y=1/0">>, <<"def f(:">>,
     <<"s=state('e')">>, <<"x=42", "show(x)", "print('a')">>, <<"plot_pie([])">>, <<"len=0">>,
     <<"len([])", "ago('1h')", "1/0">>,
     <<"print('a')", "state('e')", "state('e')">>,
     <<"print('a')">>, <<"state()">>,
     <<"print('a')", "state('e')", "print('b')", "1/0">>}

UserNames == Names \ {"_"}

CurrentSession ==
    Session(history_entries, call_counter, pending_monty, python_context, last_result)

Call(op, input, call_id, data) ==
    [op |-> op, input |-> input, call_id |-> call_id, data |-> data]

\* How a script run ended, without its snapshot.
RunSummary(result) ==
    [tag |-> result.tag, function_name |-> result.function_name,
     result |-> result.result, msg |-> result.msg]

Pause(fn, args) == [fn |-> fn, nargs |-> Len(args)]

\* A run that paused at ago(), followed by the runs after it.
Followed(progress, rest) ==
    [out |-> progress.out \o rest.out,
     pauses |-> <<Pause(progress.function_name, progress.args)>> \o rest.pauses,
     end |-> rest.end]

RECURSIVE FollowLocal(_)
\* The interpreter runs one call drives: a run that pauses at ago() is
\* resumed at once with the computed hours, any other pause or end stops the
\* call.  Gives all the text printed, the pauses met and how the last run
\* ended.
FollowLocal(progress) ==
    IF progress.tag = "FunctionCall" /\ progress.function_name = "ago"
    THEN Followed(progress,
                  FollowLocal(SnapshotRun(progress.state,
                                          parse_ago_to_monty(progress.args))))
    ELSE [out |-> progress.out,
          pauses |-> IF progress.tag = "FunctionCall"
                     THEN <<Pause(progress.function_name, progress.args)>> ELSE <<>>,
          end |-> progress.tag]

NothingRan == [out |-> <<>>, pauses |-> <<>>, end |-> "NoRun"]

\* The runs that eval drives for a script: with the replay context, or
\* without it when the context is found poisoned.
EvalRuns(S, code) ==
    LET context == python_context_prefix(S.python_context)
    IN IF ContextPoisoned(S, code) THEN FollowLocal(RunnerStart(code, S.last_result))
       ELSE IF ~MontyRunNew(context \o code) THEN NothingRan
       ELSE FollowLocal(RunnerStart(context \o code, S.last_result))

\* The text `all` of a run without the text its replayed context printed.
AfterReplay(all, replay) ==
    IF replay.end = "Complete" /\ Len(all) >= Len(replay.out)
    THEN SubSeq(all, Len(replay.out) + 1, Len(all))
    ELSE <<>>

\* What the submitted snippet itself printed in the runs eval drives (`runs`):
\* the text after the output of the replayed context.
SnippetPrinted(S, code, runs) ==
    IF ContextPoisoned(S, code) \/ S.python_context = <<>> THEN runs.out
    ELSE AfterReplay(runs.out,
                     FollowLocal(RunnerStart(python_context_prefix(S.python_context),
                                             S.last_result)))

\* The runs that fulfill_host_call drives when it resumes the pending call.
FulfilRuns(S, call_id, data) ==
    IF has_pending_monty(S.pending_monty, call_id) /\ from_str(data) # <<>>
    THEN FollowLocal(SnapshotRun(S.pending_monty[1].snapshot,
                                 HostValue(S.pending_monty[1].method, from_str(data)[1])))
    ELSE NothingRan

\* The record of what an eval that ran a script (`ran`) made the interpreter
\* do.
ObserveRuns(ran, S, code, runs) ==
    /\ pauses' = IF ran THEN runs.pauses ELSE <<>>
    /\ printed' = IF ran THEN SnippetPrinted(S, code, runs) ELSE printed

\* The same record for a fulfilment.
ObserveResumed(runs) ==
    /\ pauses' = runs.pauses
    /\ printed' = printed \o runs.out

\* The bookkeeping common to eval and fulfill_host_call, from what the call
\* returned.
Observe(r) ==
    /\ history_entries' = r.session.history_entries
    /\ call_counter' = r.session.call_counter
    /\ pending_monty' = r.session.pending_monty
    /\ python_context' = r.session.python_context
    /\ last_result' = r.session.last_result
    /\ outcome' = r.spec
    /\ run' = RunSummary(r.result)
    /\ issued' = IF IsHostCall(r.spec) THEN Append(issued, r.spec[1].call_id[1])
                 ELSE issued
    /\ bindings' =
         IF r.result.tag = "Complete"
         THEN [n \in UserNames |->
                  IF r.result.snapshot.env[n] \notin {Unbound, BuiltinFn}
                  THEN r.result.snapshot.env[n] ELSE bindings[n]]
         ELSE bindings
    /\ stored' =
         CASE r.result.tag = "Complete" ->
                IF r.result.result # <<>> THEN r.result.result ELSE <<MontyNone>>
           [] r.result.tag = "HostCallNeeded" /\ r.result.function_name = "show"
                /\ r.result.args # <<>> -> <<r.result.args[1]>>
           [] OTHER -> stored
    /\ nonnone' =
         IF r.result.tag = "Complete" /\ r.result.result # <<>> THEN r.result.result
         ELSE nonnone
    /\ all_ok' = (all_ok /\ ~IsError(r.spec))
    /\ compile_failed' =
         (compile_failed \/ (r.result.tag = "Error" /\ r.result.msg = "SyntaxError"))

Init ==
    /\ history_entries = SessionNew.history_entries
    /\ call_counter = SessionNew.call_counter
    /\ pending_monty = SessionNew.pending_monty
    /\ python_context = SessionNew.python_context
    /\ last_result = SessionNew.last_result
    /\ last_call = Call("new", <<>>, CallId(0), "")
    /\ outcome = <<>>
    /\ run = RunSummary(NoRun)
    /\ issued = <<>>
    /\ fulfilled = <<>>
    /\ bindings = [n \in UserNames |-> Unbound]
    /\ stored = <<>>
    /\ nonnone = <<>>
    /\ ctx_before = <<>>
    /\ all_ok = TRUE
    /\ clean = TRUE
    /\ compile_failed = FALSE
    /\ pauses = <<>>
    /\ printed = <<>>
    /\ returned = [args |-> <<>>, value |-> <<>>]

\* engine.eval(input)
Eval(input) ==
    /\ Trim(input) = <<>> \/ Len(history_entries) < MaxHistory
    /\ LET r == eval(CurrentSession, input)
           S1 == [CurrentSession EXCEPT
                     !.history_entries = push_history(history_entries, input)]
       IN /\ Observe(r)
          /\ last_call' = Call("eval", input, CallId(0), "")
          /\ fulfilled' = fulfilled
          /\ ctx_before' = IF r.result.tag # "NoRun" THEN python_context ELSE ctx_before
          /\ ObserveRuns(r.result.tag # "NoRun", S1, Trim(input),
                         EvalRuns(S1, Trim(input)))
          /\ returned' = returned
          /\ clean' =
               (clean /\ (r.result.tag = "NoRun"
                          \/ /\ ~snippet_references_underscore(Trim(input))
                             /\ eval_python(python_context_prefix(python_context),
                                            Trim(input), last_result).tag = "Complete"))

\* engine.fulfill_host_call(call_id, data)
Fulfill(call_id, data) ==
    LET r == fulfill_host_call(CurrentSession, call_id, data)
    IN /\ Observe(r)
       /\ last_call' = Call("fulfill_host_call", <<>>, call_id, data)
       /\ fulfilled' =
            IF pending_monty # <<>> /\ pending_monty[1].call_id = call_id
            THEN Append(fulfilled, [call_id |-> call_id, resumed |-> r.resumed])
            ELSE fulfilled
       /\ ctx_before' = ctx_before
       /\ clean' = (clean /\ r.result.tag = "NoRun")
       /\ ObserveResumed(FulfilRuns(CurrentSession, call_id, data))
       /\ returned' = returned

\* The call ids a caller hands to fulfill_host_call: the pending call's id, the
\* id issued last (answered already, or a magic command's) and the next id,
\* which was never issued.
FulfilIds ==
    ({call_counter, call_counter + 1}
        \cup {pending_monty[i].call_id[2] : i \in 1..Len(pending_monty)}) \ {0}

Next ==
    \/ \E input \in Inputs : Eval(input)
    \/ \E n \in FulfilIds, data \in DataTexts : Fulfill(CallId(n), data)

Spec == Init /\ [][Next]_vars

\* ------------------------------------------- the session store and helpers
\* The operations of Session and the helper functions, called directly as
\* the unit tests of the crate call them.
AgoNumbers == {"", "1", "2", "30", "90"}
AgoUnits == {"", "m", "h", "d", "w", "x", "D", "\\u{e9}"}
AgoArgs ==
    {<<MontyString(n \o u)>> : n \in AgoNumbers, u \in AgoUnits}
        \cup {<<MontyString(" 3h ")>>, <<MontyString(" ")>>, <<MontyInt(24)>>, <<MontyInt(0)>>,
               <<>>, <<MontyNone>>, <<MontyList(0)>>}

Returned(args, value) == [args |-> args, value |-> value]

\* What a direct call leaves alone: the record of the calls made on the
\* engine.
EngineUntouched ==
    UNCHANGED <<outcome, run, issued, fulfilled, bindings, stored, nonnone, ctx_before,
                all_ok, clean, compile_failed, pauses, printed>>

\* session.push_history(input)
PushHistory(input) ==
    /\ Trim(input) = <<>> \/ Len(history_entries) < MaxHistory
    /\ history_entries' = push_history(history_entries, input)
    /\ last_call' = Call("push_history", input, CallId(0), "")
    /\ returned' = Returned(<<input>>, <<>>)
    /\ UNCHANGED <<call_counter, pending_monty, python_context, last_result>>
    /\ EngineUntouched

\* session.next_call_id()
NextCallId ==
    /\ call_counter < MaxCalls
    /\ call_counter' = next_call_id(call_counter)
    /\ last_call' = Call("next_call_id", <<>>, CallId(0), "")
    /\ returned' = Returned(<<>>, <<CallId(next_call_id(call_counter))>>)
    /\ UNCHANGED <<history_entries, pending_monty, python_context, last_result>>
    /\ EngineUntouched

\* session.store_pending_monty(PendingMonty { call_id, .. })
StorePendingMonty(call_id) ==
    /\ pending_monty' = store_pending_monty(pending_monty,
           PendingMonty(call_id, EmptyState, <<>>, <<"state('e')">>, "get_state",
                        <<<<"entity_id", JsonStr("e")>>>>))
    /\ last_call' = Call("store_pending_monty", <<>>, call_id, "")
    /\ returned' = Returned(<<call_id>>, <<>>)
    /\ UNCHANGED <<history_entries, call_counter, python_context, last_result>>
    /\ EngineUntouched

\* session.take_pending_monty(call_id)
TakePendingMonty(call_id) ==
    /\ pending_monty' = take_pending_monty(pending_monty, call_id)
    /\ last_call' = Call("take_pending_monty", <<>>, call_id, "")
    /\ returned' = Returned(<<call_id>>, TakenPending(pending_monty, call_id))
    /\ UNCHANGED <<history_entries, call_counter, python_context, last_result>>
    /\ EngineUntouched

\* session.push_python_context(code)
PushPythonContext(code) ==
    /\ Len(python_context) < MaxContext
    /\ python_context' = push_python_context(python_context, code)
    /\ last_call' = Call("push_python_context", code, CallId(0), "")
    /\ returned' = Returned(<<code>>, <<>>)
    /\ UNCHANGED <<history_entries, call_counter, pending_monty, last_result>>
    /\ EngineUntouched

\* session.clear_python_context()
ClearPythonContext ==
    /\ python_context' = clear_python_context(python_context)
    /\ last_call' = Call("clear_python_context", <<>>, CallId(0), "")
    /\ returned' = Returned(<<>>, <<>>)
    /\ UNCHANGED <<history_entries, call_counter, pending_monty, last_result>>
    /\ EngineUntouched

\* session.set_last_result(obj)
SetLastResult(obj) ==
    /\ last_result' = set_last_result(obj)
    /\ last_call' = Call("set_last_result", <<>>, CallId(0), "")
    /\ returned' = Returned(<<obj>>, <<>>)
    /\ UNCHANGED <<history_entries, call_counter, pending_monty, python_context>>
    /\ EngineUntouched

\* parse_ago_to_monty(&args)
ParseAgo(args) ==
    /\ last_call' = Call("parse_ago_to_monty", <<>>, CallId(0), "")
    /\ returned' = Returned(args, <<parse_ago_to_monty(args)>>)
    /\ UNCHANGED <<history_entries, call_counter, pending_monty, python_context,
                   last_result>>
    /\ EngineUntouched

UnitNext ==
    \/ \E input \in {<<" ">>, <<" ", "7", " ">>} : PushHistory(input)
    \/ NextCallId
    \/ \E n \in 1..MaxCalls : StorePendingMonty(CallId(n))
    \/ \E n \in 1..MaxCalls : TakePendingMonty(CallId(n))
    \/ \E code \in {<<"x=42">>, <<"x=_">>} : PushPythonContext(code)
    \/ ClearPythonContext
    \/ \E obj \in {MontyInt(7)} : SetLastResult(obj)
    \/ \E args \in AgoArgs : ParseAgo(args)

UnitSpec == Init /\ [][UnitNext]_vars

\* ------------------------------------------------- the scan and the router
\* The snippets handed to push_python_context: `_` as a name, inside longer
\* names, inside string literals and inside comments.
PushSnippets ==
    {<<"x=42">>, <<"x=_">>, <<"print(_)">>, <<"my_var=1">>, <<"_private=42">>,
     <<"__init__=1">>, <<"x_">>, <<"print('_')">>, <<"x=1 #_">>, <<"#_", "x=_">>,
     <<"s=\"\"\"a\" _ \"\"\"">>}

\* The operation names and arguments handed to the router: every external
\* function and a name that is none of them; the lookback missing, an Int, a
\* Float, and values that are not numbers.
RouterArgs ==
    {<<>>, <<MontyString("e")>>, <<MontyInt(0)>>,
     <<MontyString("e"), MontyInt(12)>>, <<MontyString("e"), MontyInt(100)>>,
     <<MontyString("e"), MontyFloat(25)>>, <<MontyString("e"), MontyFloat(30)>>,
     <<MontyString("e"), MontyString("12")>>, <<MontyString("e"), MontyNone>>,
     <<MontyString("e"), MontyInt(100), MontyString("5minute")>>}

\* map_ext_call_to_host_call(function_name, &args)
MapExtCall(function_name, args) ==
    /\ last_call' = Call("map_ext_call_to_host_call", <<function_name>>, CallId(0), "")
    /\ returned' = Returned(args, map_ext_call_to_host_call(function_name, args))
    /\ UNCHANGED <<history_entries, call_counter, pending_monty, python_context,
                   last_result>>
    /\ EngineUntouched

HelperNext ==
    \/ \E code \in PushSnippets : PushPythonContext(code)
    \/ ClearPythonContext
    \/ \E function_name \in HA_EXTERNAL_FUNCTIONS \cup {"unknown_fn"}, args \in RouterArgs :
           MapExtCall(function_name, args)

HelperSpec == Init /\ [][HelperNext]_vars

\* ------------------------------------------------ the classification paths
\* What is left of a script at the point where the engine classifies it: it
\* completes with or without a value, raises, or pauses at an external
\* function, at once or after an ago() that the engine resolves itself.  The
\* last group pauses at an operation the router has no entry for.
Continuations ==
    {<<>>, <<Step("print", "a", 0), Step("const", "", 7), Step("expr", "", 0)>>,
     <<Step("div0", "", 0)>>, <<Step("print", "a", 0), Step("div0", "", 0)>>}
    \cup {<<Step("str", "e", 0), Step("ext", fn, 1), Step("expr", "", 0)>> :
              fn \in {"state", "show", "plot_pie", "unknown_fn"}}
    \cup {<<Step("str", "1h", 0), Step("ext", "ago", 1), Step("print", "a", 0),
            Step("ext", fn, 0)>> : fn \in {"state", "show", "unknown_fn"}}

\* handle_monty_eval_result(input, "", result), with the result of a first
\* run that has `steps` left to execute.
HandleEvalResult(input, steps) ==
    /\ call_counter < MaxCalls
    /\ Len(python_context) < MaxContext
    /\ LET start == InterpState(steps, StartEnv(<<>>), MontyNone)
           r == handle_monty_eval_result(CurrentSession, input, <<>>,
                                         resume_with_result(start, MontyNone))
       IN /\ Observe(r)
          /\ last_call' = Call("handle_monty_eval_result", input, CallId(0), "")
          /\ fulfilled' = fulfilled
          /\ ctx_before' = python_context
          /\ clean' = clean
          /\ pauses' = FollowLocal(SnapshotRun(start, MontyNone)).pauses
          /\ printed' = FollowLocal(SnapshotRun(start, MontyNone)).out
          /\ returned' = Returned(<<>>, <<>>)

\* What the router branch leaves behind for a script that paused at
\* function_name('e') with `steps` left to execute: next_call_id, then
\* store_pending_monty.
StorePaused(function_name, steps) ==
    /\ call_counter < MaxStored
    /\ call_counter' = next_call_id(call_counter)
    /\ LET routed == map_ext_call_to_host_call(function_name, <<MontyString("e")>>)
           call_id == CallId(next_call_id(call_counter))
       IN /\ pending_monty' = store_pending_monty(pending_monty,
                 PendingMonty(call_id, InterpState(steps, StartEnv(<<>>), MontyNone),
                              <<>>, <<"s=state('e')">>, routed[1].method,
                              routed[1].params))
          /\ last_call' = Call("store_pending_monty", <<>>, call_id, "")
          /\ returned' = Returned(<<call_id>>, <<>>)
    /\ UNCHANGED <<history_entries, python_context, last_result>>
    /\ EngineUntouched

HandlerNext ==
    \/ \E steps \in Continuations : HandleEvalResult(<<"x=42">>, steps)
    \/ \E function_name \in {"state", "history"}, steps \in Continuations :
           StorePaused(function_name, steps)
    \/ \E n \in FulfilIds, data \in DataTexts : Fulfill(CallId(n), data)

HandlerSpec == Init /\ [][HandlerNext]_vars

\* ---------------------------------------------------------------- properties
\* The host responses that are not JSON.
InvalidJson == {"{bad"}

\* The call id names the stored pending call.
PendingIs(call_id) == pending_monty # <<>> /\ pending_monty[1].call_id = call_id

\* The lines that are commands or bare entity ids and domains, not script.
CommandLines ==
    {":help", ":clear", "%ls", "%get sensor.temp", "%bundle x", "%fmt json",
     "sensor.temp", "light"}
IsScript(input) ==
    /\ Trim(input) # <<>>
    /\ ~(Len(Trim(input)) = 1 /\ Trim(input)[1] \in CommandLines)
\* The script calls a function that the host has to answer.
HostBound(input) ==
    IsScript(input)
        /\ \E i \in 1..Len(input) : input[i] \in {"s=state('e')", "state('e')", "state()"}

\* The names a next evaluation starts with: those the replay of the context
\* leaves bound.
ContextEnv ==
    LET replay == RunnerStart(python_context_prefix(python_context), last_result)
    IN IF replay.tag = "Complete" THEN replay.state.env ELSE [n \in Names |-> Unbound]

\* C1: the k-th call id handed out is call_k: every id is the successor of
\* the one before it, so none repeats, and call_counter, which counts them,
\* never decreases.
C1_CallIdsIncrease ==
    [][/\ call_counter' >= call_counter
       /\ Len(issued') = call_counter'
       /\ issued' # issued => issued' = Append(issued, CallId(Len(issued) + 1))]_vars

\* Ids from a magic command, a script host call and a chained host call.
W_C1_ThreeIds ==
    /\ issued = <<CallId(1), CallId(2), CallId(3)>>
    /\ last_call.op = "fulfill_host_call"
    /\ IsHostCall(outcome)
    /\ \E i \in 1..Len(history_entries) : history_entries[i] = <<"%ls">>

\* C2: an eval of a host-bound script while a pending call is stored is
\* rejected with an error and leaves the stored pending call in place.
C2_SecondBeginRejected ==
    [][(last_call'.op = "eval" /\ pending_monty # <<>> /\ HostBound(last_call'.input))
          => (IsError(outcome') /\ pending_monty' = pending_monty)]_vars

\* C3 as stated: fulfill_host_call with an id that is not the pending one
\* returns an error, whatever the data.
C3_UnknownIdIsError ==
    [][(last_call'.op = "fulfill_host_call" /\ ~PendingIs(last_call'.call_id))
          => IsError(outcome')]_vars

\* C3 amended: fulfill_host_call with an id that is not the pending one runs
\* no script and returns an error exactly when the data is not valid JSON;
\* valid JSON is formatted as the response of a magic command.
C3_UnknownIdErrorIffBadJson ==
    [][(last_call'.op = "fulfill_host_call" /\ ~PendingIs(last_call'.call_id))
          => /\ IsError(outcome') <=> last_call'.data \in InvalidJson
             /\ run'.tag = "NoRun"]_vars

\* A fulfilment with an id that never was pending, while a call is pending,
\* answered with an error for bad JSON.
W_C3_UnknownIdBadJson ==
    /\ last_call.op = "fulfill_host_call"
    /\ fulfilled = <<>>
    /\ pending_monty # <<>>
    /\ last_call.data \in InvalidJson
    /\ IsError(outcome)

\* C4: fulfill_host_call with an id that is not the pending one leaves the
\* pending slot, the call counter, the history, the replay context and the
\* last result unchanged.
C4_UnknownIdNoEffect ==
    [][(last_call'.op = "fulfill_host_call" /\ ~PendingIs(last_call'.call_id))
          => UNCHANGED <<pending_monty, call_counter, history_entries, python_context,
                         last_result>>]_vars

\* A fulfilment with a foreign id on a session that has a pending call, a
\* context and a last result.
W_C4_UnknownIdOnBusySession ==
    /\ last_call.op = "fulfill_host_call"
    /\ fulfilled = <<>>
    /\ pending_monty # <<>>
    /\ python_context # <<>>
    /\ last_result # <<>>
    /\ last_call.data \notin InvalidJson

\* C5: a continuation is resumed at most once: no id is fulfilled twice as
\* the pending id, and the pending slot never again holds an id that was.
C5_ResumedAtMostOnce ==
    /\ \A i, j \in 1..Len(fulfilled) :
          i # j => fulfilled[i].call_id # fulfilled[j].call_id
    /\ \A i \in 1..Len(fulfilled) : ~PendingIs(fulfilled[i].call_id)

\* A second fulfilment with an id whose continuation was resumed before: it
\* runs no script.
W_C5_SecondFulfilRunsNothing ==
    /\ fulfilled # <<>>
    /\ fulfilled[1].resumed
    /\ last_call.op = "fulfill_host_call"
    /\ last_call.call_id = fulfilled[1].call_id
    /\ run.tag = "NoRun"

\* C6: fulfill_host_call with data that is not JSON returns an error and
\* leaves the history, the call counter, the replay context and the last
\* result unchanged, whether or not the id is the pending one.
C6_BadJsonNoEffect ==
    [][(last_call'.op = "fulfill_host_call" /\ last_call'.data \in InvalidJson)
          => /\ IsError(outcome')
             /\ UNCHANGED <<history_entries, call_counter, python_context, last_result>>]_vars

\* Bad JSON sent for the pending id, on a session with a context and a last
\* result.
W_C6_BadJsonForPendingId ==
    /\ last_call.op = "fulfill_host_call"
    /\ last_call.data \in InvalidJson
    /\ fulfilled # <<>>
    /\ fulfilled[Len(fulfilled)].call_id = last_call.call_id
    /\ ~fulfilled[Len(fulfilled)].resumed
    /\ IsError(outcome)
    /\ python_context # <<>>
    /\ last_result # <<>>

\* C7 as stated: as long as no evaluation ended in an error, every name an
\* evaluation bound is visible with its value to the next evaluation.
C7_BindingsPersist ==
    all_ok => \A n \in UserNames : bindings[n] # Unbound => ContextEnv[n] = bindings[n]

\* C7 amended: as long as every script completed in eval itself, without an
\* error, without pausing at an external function, without a retry that
\* drops the context and without a standalone `_` in its text, every name an
\* evaluation bound is visible with its value to the next evaluation.
C7_CleanBindingsPersist ==
    clean => \A n \in UserNames : bindings[n] # Unbound => ContextEnv[n] = bindings[n]

\* `x = 42` followed by `x + 1` completes with 43.
W_C7_FortyThree ==
    /\ clean
    /\ bindings["x"] = MontyInt(42)
    /\ last_call.input = <<"x+1">>
    /\ outcome = <<RenderSpecValue(MontyInt(43))>>

\* C8: after a script run that ended in an error, in eval or after
\* resumptions, the replay context is what it was before the snippet was
\* submitted.
C8_ErrorKeepsContext ==
    (last_call.op \in {"eval", "fulfill_host_call"} /\ run.tag = "Error")
        => python_context = ctx_before

\* C9 as stated: once a script failed to compile, every later eval of a
\* script is rejected with an error.
C9_CompileErrorIsFatal ==
    (compile_failed /\ last_call.op = "eval" /\ IsScript(last_call.input))
        => IsError(outcome)

\* C9 amended: an eval that fails with a compile error changes nothing but
\* the history, so the session stays usable: later scripts are evaluated as
\* if it had not been submitted.
C9_CompileErrorLeavesSessionUsable ==
    [][(last_call'.op = "eval" /\ run'.tag = "Error" /\ run'.msg = "SyntaxError")
          => UNCHANGED <<call_counter, pending_monty, python_context, last_result>>]_vars

\* A script that completes with a value after one that failed to compile,
\* on a session that had a context.
W_C9_EvalAfterCompileError ==
    /\ compile_failed
    /\ last_call.op = "eval"
    /\ IsScript(last_call.input)
    /\ run.tag = "Complete"
    /\ ~IsError(outcome)

\* C10 as stated: `_` is the value of the most recent evaluation that
\* completed with a value other than None.
C10_UnderscoreIsLastNonNone ==
    nonnone # <<>> => last_result = nonnone

\* C10 amended: `_` is what the most recent script run that completed or
\* paused at show(v) stored: its value, None when it completed with no
\* value, v for show(v); runs that end in an error, at a host call or at a
\* chart leave it unchanged, and before any such run `_` is not defined.
C10_UnderscoreIsLastStored ==
    last_result = stored

\* A completion without a value after one with a value: `_` is None.
W_C10_NoneAfterValue ==
    /\ nonnone # <<>>
    /\ last_result = <<MontyNone>>
    /\ run.tag = "Complete"

RECURSIVE TextOf(_)
\* The printed text a RenderSpec carries: its text children, in order.
TextOf(spec) ==
    IF spec = <<>> THEN <<>>
    ELSE (IF Head(spec).type = "text" /\ Head(spec).value = <<>> THEN Head(spec).text
          ELSE <<>>) \o TextOf(Tail(spec))

\* The text reported for the statement in flight: the output carried by the
\* pending call while it is paused at the host, the text of the outcome once
\* it has ended.
ReportedText ==
    IF IsHostCall(outcome) /\ pending_monty # <<>> THEN pending_monty[1].output_so_far
    ELSE TextOf(outcome)

\* C11: every resumption of a paused statement reports the text carried so
\* far followed by everything the resumed runs printed, in program order,
\* also when the statement then ends in an error: so the text of the final
\* outcome is the concatenation of all the segments printed.
C11_OutputInProgramOrder ==
    [][(last_call'.op = "fulfill_host_call" /\ run'.tag # "NoRun")
          => ReportedText' =
                 pending_monty[1].output_so_far
                    \o FulfilRuns(CurrentSession, last_call'.call_id, last_call'.data).out]_vars

\* C12: the text returned for a snippet that completes on a session with a
\* replay context is exactly what the snippet printed: nothing the context
\* printed while it was replayed.
C12_ContextOutputStripped ==
    (last_call.op = "eval" /\ run.tag = "Complete" /\ ctx_before # <<>>)
        => TextOf(outcome) = printed

\* C13: eval appends the trimmed input to the history when it is not blank
\* and leaves the history alone when it is; fulfill_host_call never changes
\* the history.  So the history is the list of trimmed non-blank inputs in
\* call order, and no entry is ever changed or removed.
C13_HistoryIsInputsInOrder ==
    [][/\ last_call'.op = "eval" =>
            history_entries' = IF Trim(last_call'.input) # <<>>
                               THEN Append(history_entries, Trim(last_call'.input))
                               ELSE history_entries
       /\ last_call'.op = "fulfill_host_call" => history_entries' = history_entries]_vars

\* An input with blanks around it recorded trimmed, after an entry that a
\* fulfilment in between left in place.
W_C13_TrimmedAfterFulfil ==
    /\ last_call.op = "eval"
    /\ last_call.input = <<" ", "7", " ">>
    /\ fulfilled # <<>>
    /\ history_entries = <<<<"s=state('e')">>, <<"7">>>>

\* The operations resolved in the engine, and those that need an entity id.
LocalFunctions == {"show", "ago"} \cup ChartFunctions
EntityOperations == {"state", "history", "statistics", "logbook", "entities"}

\* C15: no call returns with the statement stopped at a local operation: a
\* pause at show, ago or a chart function is resumed and the statement runs
\* on until it completes, raises or pauses at a host-bound function.
C15_LocalPauseResumed ==
    run.tag = "HostCallNeeded" => run.function_name \notin LocalFunctions

\* C16: a call in which the interpreter paused at local operations only
\* takes no call id and stores no pending call: eval leaves call_counter and
\* the pending slot unchanged, a fulfilment leaves the slot empty.
C16_LocalPauseTakesNoId ==
    [][(pauses' # <<>> /\ \A i \in 1..Len(pauses') : pauses'[i].fn \in LocalFunctions)
          => /\ call_counter' = call_counter
             /\ last_call'.op = "eval" => pending_monty' = pending_monty
             /\ last_call'.op = "fulfill_host_call" => pending_monty' = <<>>]_vars

\* A chart drawn by eval while a host call is pending.
W_C16_ChartWhilePending ==
    /\ last_call.op = "eval"
    /\ pauses = <<Pause("plot_pie", <<MontyList(0)>>)>>
    /\ pending_monty # <<>>
    /\ call_counter = 1

\* C18: an eval that pauses at an operation that needs an entity id, called
\* with no argument, returns no host call, hands out no id and stores no
\* pending call.
C18_MissingEntityIdFails ==
    [][(/\ last_call'.op = "eval"
        /\ pauses' # <<>>
        /\ pauses'[Len(pauses')].fn \in EntityOperations
        /\ pauses'[Len(pauses')].nargs = 0)
          => /\ ~IsHostCall(outcome')
             /\ issued' = issued
             /\ pending_monty' = pending_monty]_vars

\* C19: when a call returns a host call that comes from a script pause, the
\* pending slot holds the call with the id, method and params of the
\* returned request, and the id is call_<call_counter>.
C19_HostRequestIsPending ==
    (IsHostCall(outcome) /\ run.tag = "HostCallNeeded")
        => /\ Len(pending_monty) = 1
           /\ pending_monty[1].call_id = outcome[1].call_id[1]
           /\ pending_monty[1].method = outcome[1].method
           /\ pending_monty[1].params = outcome[1].params
           /\ pending_monty[1].call_id = CallId(call_counter)

\* A host call returned by a fulfilment: the second of a chain.
W_C19_ChainedRequest ==
    /\ last_call.op = "fulfill_host_call"
    /\ IsHostCall(outcome)
    /\ run.tag = "HostCallNeeded"
    /\ pending_monty # <<>>
    /\ pending_monty[1].call_id = CallId(2)
    /\ pending_monty[1].output_so_far = <<"a", "\n">>

\* C20: a fulfilment with the pending id and valid JSON ends the paused
\* statement or pauses it again: when it returns no host call the pending
\* slot is empty, when it returns one the slot holds a call with a greater
\* id.
C20_FulfilEndsOrPausesAgain ==
    [][(/\ last_call'.op = "fulfill_host_call"
        /\ PendingIs(last_call'.call_id)
        /\ last_call'.data \notin InvalidJson)
          => /\ run'.tag \in {"Complete", "Error", "HostCallNeeded"}
             /\ IF IsHostCall(outcome')
                THEN /\ pending_monty' # <<>>
                     /\ pending_monty'[1].call_id[2] > last_call'.call_id[2]
                ELSE pending_monty' = <<>>]_vars

\* A statement paused twice and then completed by the second fulfilment.
W_C20_CompletedAfterTwoPauses ==
    /\ last_call.op = "fulfill_host_call"
    /\ Len(fulfilled) = 2
    /\ fulfilled[1].resumed /\ fulfilled[2].resumed
    /\ fulfilled[2].call_id = last_call.call_id
    /\ run.tag = "Complete"
    /\ pending_monty = <<>>

\* C14: take_pending_monty returns and removes the pending call exactly when
\* its id is the one asked for; otherwise it returns nothing and leaves the
\* slot and every other session field as they were.
C14_TakeOnlyMatchingId ==
    [][last_call'.op = "take_pending_monty" =>
          IF pending_monty # <<>> /\ pending_monty[1].call_id = last_call'.call_id
          THEN returned'.value = pending_monty /\ pending_monty' = <<>>
          ELSE /\ returned'.value = <<>>
               /\ UNCHANGED <<pending_monty, history_entries, call_counter, python_context,
                              last_result>>]_vars

\* A take with another id than the stored one, on a session whose other
\* fields are all set.
W_C14_ForeignIdKept ==
    /\ last_call.op = "take_pending_monty"
    /\ returned.value = <<>>
    /\ pending_monty # <<>>
    /\ pending_monty[1].call_id # last_call.call_id
    /\ history_entries # <<>>
    /\ call_counter > 0
    /\ python_context # <<>>
    /\ last_result # <<>>

\* The hours the documentation of ago promises: N for "Nh" and for a bare
\* "N", 24 N for "Nd", 168 N for "Nw", N/60 rounded but at least 1 for "Nm",
\* an integer as it is, and 6 for anything else.
ClaimedAgo(args) ==
    IF args = <<>> THEN MontyInt(6)
    ELSE IF args[1].t = "Int" THEN MontyInt(args[1].v)
    ELSE IF args[1].t # "String" THEN MontyInt(6)
    ELSE LET text == to_lowercase(Trim(StrChars(args[1].s)))
             unit == IF text # <<>> /\ text[Len(text)] \in {"m", "h", "d", "w"}
                     THEN text[Len(text)] ELSE "h"
             digits == IF text # <<>> /\ text[Len(text)] \in {"m", "h", "d", "w"}
                       THEN SubSeq(text, 1, Len(text) - 1) ELSE text
             N == IF digits = <<>> THEN <<>> ELSE ParseNum(digits, 0)
         IN IF N = <<>> THEN MontyInt(6)
            ELSE CASE unit = "m" -> MontyInt(IF (N[1] + 30) \div 60 < 1 THEN 1
                                             ELSE (N[1] + 30) \div 60)
                   [] unit = "d" -> MontyInt(24 * N[1])
                   [] unit = "w" -> MontyInt(168 * N[1])
                   [] OTHER -> MontyInt(N[1])

\* C17: ago returns the whole hours its argument stands for, and 6 for a
\* missing, empty or unparseable argument.
C17_AgoWholeHours ==
    last_call.op = "parse_ago_to_monty" => returned.value = <<ClaimedAgo(returned.args)>>

\* C21: when the run of a snippet with a non-empty replay context errors, the
\* snippet is run once more without the context.  When that run does not end
\* in an error (it compiles and does not raise before it completes or needs
\* the host) the old context is gone and what is reported is the outcome of
\* the run without context; when it ends in an error too the context is
\* left as it was and the error of the first run is reported.
C21_RetryWithoutContext ==
    [][LET code == Trim(last_call'.input)
           first == eval_python(python_context_prefix(python_context), code, last_result)
           retry_errors ==
               ~MontyRunNew(code)
                   \/ FollowLocal(RunnerStart(code, last_result)).end = "Err"
           without_context == [CurrentSession EXCEPT !.python_context = <<>>]
       IN (/\ last_call'.op = "eval"
           /\ IsScript(last_call'.input)
           /\ python_context # <<>>
           /\ first.tag = "Error")
             => IF retry_errors
                THEN /\ python_context' = python_context
                     /\ outcome' = <<RenderSpecError(first.msg)>>
                ELSE /\ python_context' \in {<<>>, <<code>>}
                     /\ outcome' = eval(without_context, last_call'.input).spec]_vars

\* C22: a snippet whose evaluation paused at an external function is not
\* added to the replay context, by the eval that paused or by any
\* fulfilment of the chain: the context stays what it was before the snippet
\* was submitted.
C22_PausedSnippetNotCommitted ==
    [][/\ (last_call'.op = "eval" /\ pauses' # <<>>) => python_context' = python_context
       /\ last_call'.op = "fulfill_host_call" => python_context' = python_context]_vars

RECURSIVE UnderscoreToken(_, _, _)
\* The text from index i on holds the name `_` as a token of its own.  `in`
\* says where index i is: in code (""), in a comment ("#"), or in a string
\* literal that the given quote or triple quote closes.
UnderscoreToken(chars, i, in) ==
    LET at(k) == IF k <= Len(chars) THEN chars[k] ELSE ""
        triple(q) == at(i) = q /\ at(i + 1) = q /\ at(i + 2) = q
        word_end == CHOOSE j \in i..Len(chars) :
                        /\ \A k \in i..j : is_ident_char(chars[k])
                        /\ ~is_ident_char(at(j + 1))
    IN IF i > Len(chars) THEN FALSE
       ELSE CASE in = "#" ->
                   UnderscoreToken(chars, i + 1, IF at(i) = "\n" THEN "" ELSE "#")
              [] in \in {"'", "\""} ->
                   IF at(i) = "\\" THEN UnderscoreToken(chars, i + 2, in)
                   ELSE UnderscoreToken(chars, i + 1,
                                        IF at(i) \in {in, "\n"} THEN "" ELSE in)
              [] in \in {"'''", "\"\"\""} ->
                   IF at(i) = "\\" THEN UnderscoreToken(chars, i + 2, in)
                   ELSE IF triple(SubSeq(in, 1, 1)) THEN UnderscoreToken(chars, i + 3, "")
                   ELSE UnderscoreToken(chars, i + 1, in)
              [] triple("'") -> UnderscoreToken(chars, i + 3, "'''")
              [] triple("\"") -> UnderscoreToken(chars, i + 3, "\"\"\"")
              [] at(i) \in {"'", "\"", "#"} -> UnderscoreToken(chars, i + 1, at(i))
              [] is_ident_char(at(i)) ->
                   (word_end = i /\ at(i) = "_")
                       \/ UnderscoreToken(chars, word_end + 1, "")
              [] OTHER -> UnderscoreToken(chars, i + 1, "")

\* C23: push_python_context appends the snippet to the replay context
\* exactly when the snippet holds no `_` token of its own outside string
\* literals and comments; otherwise it leaves the context unchanged.
C23_PushedUnlessUnderscoreToken ==
    [][last_call'.op = "push_python_context"
          => python_context' =
                 IF UnderscoreToken(CodeBytes(last_call'.input), 1, "")
                 THEN python_context
                 ELSE Append(python_context, last_call'.input)]_vars

\* C25 (as stated): for history, logbook and statistics the router sends
\* hours = 6, 6 and 24 when the second argument is missing or not a number,
\* and sends a numeric second argument unchanged.
C25_LookbackDefaultOrUnchanged ==
    (/\ last_call.op = "map_ext_call_to_host_call"
     /\ last_call.input[1] \in {"history", "logbook", "statistics"}) =>
        LET args == returned.args
            params == returned.value[1].params
            default == IF last_call.input[1] = "statistics" THEN 24 ELSE 6
        IN /\ returned.value # <<>>
           /\ params[2][1] = "hours"
           /\ IF Len(args) >= 2 /\ args[2].t = "Int" THEN params[2][2] = JsonNum(args[2].v)
              ELSE IF Len(args) >= 2 /\ args[2].t = "Float"
              THEN params[2][2].j = "num" /\ params[2][2].n * 10 = args[2].v
              ELSE params[2][2] = JsonNum(default)

\* C25 (amended): the same defaults; an Int is sent unchanged and a Float is
\* sent without its fraction.
C25_LookbackDefaultOrWholeHours ==
    (/\ last_call.op = "map_ext_call_to_host_call"
     /\ last_call.input[1] \in {"history", "logbook", "statistics"}) =>
        LET args == returned.args
            params == returned.value[1].params
            default == IF last_call.input[1] = "statistics" THEN 24 ELSE 6
        IN /\ returned.value # <<>>
           /\ params[2][1] = "hours"
           /\ IF Len(args) >= 2 /\ args[2].t = "Int" THEN params[2][2] = JsonNum(args[2].v)
              ELSE IF Len(args) >= 2 /\ args[2].t = "Float"
              THEN /\ params[2][2].j = "num"
                   /\ params[2][2].n * 10 <= args[2].v
                   /\ args[2].v < (params[2][2].n + 1) * 10
              ELSE params[2][2] = JsonNum(default)

W_C25_FloatLookback ==
    /\ last_call.op = "map_ext_call_to_host_call"
    /\ last_call.input[1] = "statistics"
    /\ returned.args = <<MontyString("e"), MontyFloat(25)>>
    /\ returned.value[1].method = "get_statistics"
    /\ returned.value[1].params[2] = <<"hours", JsonNum(2)>>

C26_ChainKeepsOriginalSnippet ==
    [][(/\ last_call'.op = "fulfill_host_call"
        /\ PendingIs(last_call'.call_id)
        /\ pending_monty' # <<>>) =>
           pending_monty'[1].original_snippet = pending_monty[1].original_snippet]_vars

W_C26_PausedAgainAfterAgo ==
    /\ last_call.op = "fulfill_host_call"
    /\ fulfilled # <<>>
    /\ fulfilled[Len(fulfilled)].resumed
    /\ Len(pauses) = 2
    /\ pauses[1].fn = "ago"
    /\ pauses[2].fn = "state"
    /\ pending_monty # <<>>
    /\ pending_monty[1].original_snippet = <<"s=state('e')">>
    /\ pending_monty[1].call_id # last_call.call_id

C28_BadJsonKeepsPendingCall ==
    [][(/\ last_call'.op = "fulfill_host_call"
        /\ PendingIs(last_call'.call_id)
        /\ last_call'.data \in InvalidJson) =>
           /\ pending_monty' = pending_monty
           /\ has_pending_monty(pending_monty', last_call'.call_id)]_vars

\* C29: when an evaluation runs a script on top of a replay context, the
\* replay of that context (with its ago() calls resolved by the engine) does
\* not stop at an external function, so the run reaches the new snippet.
C29_ReplayNeverPauses ==
    [][(/\ last_call'.op = "eval"
        /\ run'.tag # "NoRun"
        /\ python_context # <<>>) =>
           FollowLocal(RunnerStart(python_context_prefix(python_context),
                                   last_result)).end # "FunctionCall"]_vars

\* C30: every name in HA_EXTERNAL_FUNCTIONS is one the engine handles itself
\* (show, ago, the four chart functions) or one the router maps to a host
\* method, whatever the arguments.
C30_EveryExternalFunctionHandled ==
    (/\ last_call.op = "map_ext_call_to_host_call"
     /\ last_call.input[1] \in HA_EXTERNAL_FUNCTIONS) =>
        \/ last_call.input[1] \in LocalFunctions
        \/ /\ returned.value # <<>>
           /\ returned.value[1].method # ""

W_C30_RoutedWithoutArguments ==
    /\ last_call.op = "map_ext_call_to_host_call"
    /\ last_call.input[1] = "services"
    /\ returned.args = <<>>
    /\ returned.value = HostCall("get_services", <<>>)

====
